---- MODULE Spec2Model ----
(***************************************************************************)
(* A model of deal's stub files (deal/linter/_stub.py) and of its marker   *)
(* extractor (deal/linter/_extractors/markers.py).                         *)
(*                                                                         *)
(*   SpecStub    StubFile and StubsManager over a small file system        *)
(*   SpecMarkers handle_call / handle_with applied to one expression       *)
(*   SpecDive    the marker analysis run step by step over a call graph    *)
(***************************************************************************)
EXTENDS Integers, Sequences, FiniteSets, TLC

VARIABLES
    files,      \* the file system: path -> Absent, Empty or a JSON document
    inits,      \* the directories that hold an __init__.py
    modules,    \* StubsManager._modules: module name -> StubFile (heap index)
    heap,       \* the StubFile objects alive: index -> [path, content]
    last,       \* the call that has just returned: what it was, what it gave
    defs,       \* the function definitions the inference oracle can name
    top,        \* the expression handed to the extractor, with dive and stubs
    stack,      \* the handler calls in progress, outermost first
    tokens,     \* the tokens the outermost handler has yielded so far
    log,        \* the stub lookups, body analyses and decorator scans done
    status      \* "run", "done" or "raised"

stubVars == <<files, inits, modules, heap, last>>
markerVars == <<defs, top, stack, tokens, log, status>>
vars == <<stubVars, markerVars>>

----------------------------------------------------------------------------
(* Bounds                                                                  *)

\* StubFile objects a run may construct
MaxStubs == 2

\* expressions in the body of a function definition
MaxBody == 2

\* handler calls that may be in progress at once
MaxDepth == 3

----------------------------------------------------------------------------
(* Paths, file contents                                                    *)

Range(s) == {s[i] : i \in DOMAIN s}

\* StubsManager.root, as the directory names leading to it
root == <<"stubs">>

\* A path is its directory, the dot-separated pieces of its stem, its suffix.
Path(dirs, stem, suffix) == [dirs |-> dirs, stem |-> stem, suffix |-> suffix]

Paths ==
    { Path(root, <<"mod">>, "json"),
      Path(root, <<"pkg", "mod">>, "json"),
      Path(<<"pkg">>, <<"mod">>, "json"),
      Path(<<"pkg">>, <<"mod">>, "py"),
      Path(<<"pkg">>, <<"pkg", "mod">>, "json"),
      Path(<<"pkg">>, <<"mod">>, "txt") }

Dirs == { <<>>, <<"pkg">> }

ModuleNames == { <<"mod">>, <<"pkg", "mod">> }

Funcs == {"f"}
Values == {"ValueError", "KeyError"}
Contracts == {"raises", "has"}

Absent == [kind |-> "absent"]
Empty == [kind |-> "empty"]
Json(content) == [kind |-> "json", data |-> content]

\* dict(): a function with an empty domain
EmptyDict == <<>>

\* The documents the file system may hold before the run.
ShippedContent == [f \in {"f"} |-> [c \in {"has"} |-> <<"KeyError">>]]

None == 0

----------------------------------------------------------------------------
(* StubFile                                                                *)

\* StubFile.__init__
StubFile(path) == [path |-> path, content |-> EmptyDict]

\* json.load on what open() gives: a missing file and a file of zero bytes
\* both raise, a document is read back as dicts and lists.
load(stub, fs) ==
    IF fs[stub.path].kind = "json"
    THEN [raised |-> FALSE, stub |-> [stub EXCEPT !.content = fs[stub.path].data]]
    ELSE [raised |-> TRUE, stub |-> stub]

\* StubFile.dump: open(mode='w') creates or truncates the file, then
\* json.dump(stream) is called without its fp argument and raises TypeError
\* before anything is written or assigned.
dump(stub, fs) ==
    [raised |-> TRUE, stub |-> stub,
     files |-> [fs EXCEPT ![stub.path] = Empty]]

\* dict.setdefault(key, default) on a dict modelled as a function
setdefault(d, key, default) ==
    IF key \in DOMAIN d THEN d
    ELSE [k \in DOMAIN d \cup {key} |-> IF k = key THEN default ELSE d[k]]

\* StubFile.add
add(stub, func, contract, value) ==
    IF contract # "raises"
    THEN [raised |-> TRUE, stub |-> stub]
    ELSE LET c1 == setdefault(stub.content, func, EmptyDict)
             contracts == setdefault(c1[func], contract, <<>>)
             values == IF value \in Range(contracts[contract])
                       THEN contracts[contract]
                       ELSE Append(contracts[contract], value)
         IN [raised |-> FALSE,
             stub |-> [stub EXCEPT !.content =
                 [c1 EXCEPT ![func] = [contracts EXCEPT ![contract] = values]]]]

\* StubFile.get: frozenset of the list under content[func][contract]
StubFile_get(stub, func, contract) ==
    IF func \in DOMAIN stub.content /\ contract \in DOMAIN stub.content[func]
    THEN Range(stub.content[func][contract])
    ELSE {}

----------------------------------------------------------------------------
(* StubsManager                                                            *)

\* path.parents, nearest first, as the lengths of the prefixes of path.dirs
RECURSIVE walk_up(_, _, _)
walk_up(path, k, marked) ==
    IF k < 0 THEN path.stem
    ELSE IF SubSeq(path.dirs, 1, k) \notin marked
         THEN SubSeq(path.dirs, k + 1, Len(path.dirs)) \o path.stem
         ELSE walk_up(path, k - 1, marked)

\* StubsManager._get_module_name; a module name is its dot-separated pieces
get_module_name(path, marked) ==
    IF path.dirs = root THEN path.stem
    ELSE IF Len(path.stem) > 1 THEN path.stem
    ELSE IF path.dirs \notin marked THEN path.stem
    ELSE walk_up(path, Len(path.dirs), marked)

\* self._modules[module_name] = stub, for a stub newly put on the heap
store(mods, hp, module_name, stub) ==
    [modules |-> [m \in DOMAIN mods \cup {module_name} |->
                     IF m = module_name THEN Len(hp) + 1 ELSE mods[m]],
     heap |-> Append(hp, stub)]

\* read without the "module_name not in self._modules" test: every call loads
read_reloading(mods, hp, fs, marked, path) ==
    IF path.suffix # "json"
    THEN [raised |-> TRUE, ret |-> None, module |-> <<>>, modules |-> mods, heap |-> hp]
    ELSE LET module_name == get_module_name(path, marked)
             loaded == load(StubFile(path), fs)
             st == store(mods, hp, module_name, loaded.stub)
         IN IF loaded.raised
            THEN [raised |-> TRUE, ret |-> None, module |-> module_name,
                  modules |-> mods, heap |-> hp]
            ELSE [raised |-> FALSE, ret |-> st.modules[module_name],
                  module |-> module_name, modules |-> st.modules, heap |-> st.heap]

\* StubsManager.read
read(mods, hp, fs, marked, path) ==
    IF path.suffix # "json"
    THEN [raised |-> TRUE, ret |-> None, module |-> <<>>, modules |-> mods, heap |-> hp]
    ELSE LET module_name == get_module_name(path, marked)
             loaded == load(StubFile(path), fs)
             st == store(mods, hp, module_name, loaded.stub)
         IN IF module_name \in DOMAIN mods
            THEN [raised |-> FALSE, ret |-> mods[module_name], module |-> module_name,
                  modules |-> mods, heap |-> hp]
            ELSE IF loaded.raised
            THEN [raised |-> TRUE, ret |-> None, module |-> module_name,
                  modules |-> mods, heap |-> hp]
            ELSE [raised |-> FALSE, ret |-> st.modules[module_name],
                  module |-> module_name, modules |-> st.modules, heap |-> st.heap]

\* StubsManager.get
StubsManager_get(mods, hp, fs, marked, module_name) ==
    LET path == Path(root, module_name, "json")
        r == read(mods, hp, fs, marked, path)
    IN IF module_name \in DOMAIN mods
       THEN [raised |-> FALSE, ret |-> mods[module_name], module |-> module_name,
             modules |-> mods, heap |-> hp]
       ELSE IF fs[path].kind # "absent"
       THEN [r EXCEPT !.ret = None, !.module = module_name]
       ELSE [raised |-> FALSE, ret |-> None, module |-> module_name,
             modules |-> mods, heap |-> hp]

\* StubsManager.create
create(mods, hp, marked, path0) ==
    LET path == IF path0.suffix = "py" THEN [path0 EXCEPT !.suffix = "json"] ELSE path0
        module_name == get_module_name(path, marked)
        st == store(mods, hp, module_name, StubFile(path))
    IN IF module_name \in DOMAIN mods
       THEN [raised |-> FALSE, ret |-> mods[module_name], module |-> module_name,
             modules |-> mods, heap |-> hp]
       ELSE [raised |-> FALSE, ret |-> st.modules[module_name], module |-> module_name,
             modules |-> st.modules, heap |-> st.heap]

----------------------------------------------------------------------------
(* The stub specification: calls on one manager and on its StubFiles       *)

Call(op, r) ==
    [op |-> op, module |-> r.module, ret |-> r.ret, raised |-> r.raised, vals |-> {}]

StartFiles ==
    { fs \in [Paths -> {Absent, Json(ShippedContent)}] :
         \A p \in Paths : p.suffix # "json" => fs[p] = Absent }

\* The marker extractor is not running.
MarkersIdle ==
    /\ defs = <<>>
    /\ top = <<>>
    /\ stack = <<>>
    /\ tokens = <<>>
    /\ log = <<>>
    /\ status = "idle"

NoCall == [op |-> "init", module |-> <<>>, ret |-> None, raised |-> FALSE, vals |-> {}]

StubInit ==
    /\ files \in StartFiles
    /\ inits \in SUBSET Dirs
    /\ modules = <<>>
    /\ heap = <<>>
    /\ last = NoCall
    /\ MarkersIdle

Read(path) ==
    LET r == read(modules, heap, files, inits, path)
    IN /\ modules' = r.modules
       /\ heap' = r.heap
       /\ last' = Call("read", r)
       /\ UNCHANGED <<files, inits, markerVars>>

Get(module_name) ==
    LET r == StubsManager_get(modules, heap, files, inits, module_name)
    IN /\ modules' = r.modules
       /\ heap' = r.heap
       /\ last' = Call("get", r)
       /\ UNCHANGED <<files, inits, markerVars>>

Create(path) ==
    LET r == create(modules, heap, inits, path)
    IN /\ modules' = r.modules
       /\ heap' = r.heap
       /\ last' = Call("create", r)
       /\ UNCHANGED <<files, inits, markerVars>>

Add(i, func, contract, value) ==
    LET r == add(heap[i], func, contract, value)
    IN /\ heap' = [heap EXCEPT ![i] = r.stub]
       /\ last' = [op |-> "add", module |-> <<>>, ret |-> i,
                   raised |-> r.raised, vals |-> {}]
       /\ UNCHANGED <<files, inits, modules, markerVars>>

StubNext ==
    \/ \E path \in Paths : Read(path)
    \/ \E module_name \in ModuleNames : Get(module_name)
    \/ \E path \in Paths : Create(path)
    \/ \E i \in DOMAIN heap, func \in Funcs, contract \in Contracts :
          Add(i, func, contract, "ValueError")

SpecStub == StubInit /\ [][StubNext]_vars

----------------------------------------------------------------------------
(* The stub file specification: StubFile objects over one directory, each  *)
(* filled by add, written by dump and read back by load and get            *)

StubFileInit ==
    /\ files \in { fs \in StartFiles : \A p \in Paths : p.dirs # root => fs[p] = Absent }
    /\ inits = {}
    /\ modules = <<>>
    /\ heap = <<>>
    /\ last = NoCall
    /\ MarkersIdle

\* StubFile(path) constructed by a caller
NewStubFile(path) ==
    /\ Len(heap) < MaxStubs
    /\ heap' = Append(heap, StubFile(path))
    /\ last' = [op |-> "new", module |-> <<>>, ret |-> Len(heap) + 1,
                raised |-> FALSE, vals |-> {}]
    /\ UNCHANGED <<files, inits, modules, markerVars>>

Load(i) ==
    LET r == load(heap[i], files)
    IN /\ heap' = [heap EXCEPT ![i] = r.stub]
       /\ last' = [op |-> "load", module |-> <<>>, ret |-> i,
                   raised |-> r.raised, vals |-> {}]
       /\ UNCHANGED <<files, inits, modules, markerVars>>

Dump(i) ==
    LET r == dump(heap[i], files)
    IN /\ heap' = [heap EXCEPT ![i] = r.stub]
       /\ files' = r.files
       /\ last' = [op |-> "dump", module |-> <<>>, ret |-> i,
                   raised |-> r.raised, vals |-> {}]
       /\ UNCHANGED <<inits, modules, markerVars>>

StubGet(i, func, contract) ==
    /\ last' = [op |-> "stubget", module |-> <<>>, ret |-> i, raised |-> FALSE,
                vals |-> StubFile_get(heap[i], func, contract)]
    /\ UNCHANGED <<files, inits, modules, heap, markerVars>>

StubFileNext ==
    \/ \E path \in {p \in Paths : p.dirs = root} : NewStubFile(path)
    \/ \E i \in DOMAIN heap : Load(i)
    \/ \E i \in DOMAIN heap : Dump(i)
    \/ \E i \in DOMAIN heap, func \in Funcs, contract \in Contracts, value \in Values :
          Add(i, func, contract, value)
    \/ \E i \in DOMAIN heap, func \in Funcs, contract \in Contracts :
          StubGet(i, func, contract)

SpecStubFile == StubFileInit /\ [][StubFileNext]_vars

----------------------------------------------------------------------------
(* Syntax nodes of the two tree families                                   *)

\* get_name gives None
NoName == <<>>

\* A Name or an Attribute chain, as the pieces of its dotted name
NameNode(parts) ==
    [node |-> IF Len(parts) = 1 THEN "Name" ELSE "Attribute",
     type |-> "", val |-> <<>>, parts |-> parts]

\* A constant; a str or bytes value is the sequence of its characters
ConstNode(type, val) == [node |-> "Const", type |-> type, val |-> val, parts |-> <<>>]

\* Any other expression (a call, a subscript, a lambda)
OtherNode == [node |-> "Other", type |-> "", val |-> <<>>, parts |-> <<>>]

\* common.get_name: the dotted name of a Name or Attribute, else None
get_name(node) ==
    IF node.node \in {"Name", "Attribute"} THEN node.parts ELSE NoName

\* str.startswith on dotted names, piece by piece
startswith(name, prefix) ==
    /\ Len(name) >= Len(prefix)
    /\ SubSeq(name, 1, Len(prefix)) = prefix

\* 'w' in s
contains_w(s) == \E i \in DOMAIN s : s[i] = "w"

\* isinstance(node, ast.Str): a str constant of the syntax-only tree
is_ast_Str(tree, node) == tree = "ast" /\ node.node = "Const" /\ node.type = "str"

\* isinstance(node, astroid.Const): any constant of the inference-capable tree
is_astroid_Const(tree, node) == tree = "astroid" /\ node.node = "Const"

\* A token; its value is a dotted name as pieces, <<>> for None
Token(marker, value, line, col) ==
    [marker |-> marker, value |-> value, line |-> line, col |-> col]

\* Values the inference oracle gives
FunctionDef(fn) == [kind |-> "FunctionDef", fn |-> fn, pytype |-> ""]
BoundMethod(pytype) == [kind |-> "BoundMethod", fn |-> "", pytype |-> pytype]
Instance(pytype) == [kind |-> "Instance", fn |-> "", pytype |-> pytype]
ClassDef == [kind |-> "ClassDef", fn |-> "", pytype |-> ""]

\* common.infer: the oracle's candidates for a node; nothing for a node of
\* the syntax-only tree
infer(tree, candidates) == IF tree = "astroid" THEN candidates ELSE <<>>

----------------------------------------------------------------------------
(* The name tables of markers.py, cut to the names the model's calls use   *)

DEFINITELY_RANDOM_FUNCS == {"randint", "randbytes", "randrange", "getrandbits", "shuffle"}

\* dir(random)
MAYBE_RANDOM_FUNCS ==
    DEFINITELY_RANDOM_FUNCS \cup {"choice", "random", "seed", "uniform", "sample", "Random"}

SYSCALLS == { <<"os", "system">>, <<"os", "fork">>, <<"subprocess", "run">> }

\* the second pieces that begin with 'exec', 'spawn' or 'popen'
SYSCALLS_PREFIXES == {"execv", "execvp", "spawnl", "popen"}

TIMES == { <<"os", "times">>, <<"datetime", "now">>, <<"datetime", "datetime", "now">>,
           <<"time", "time">>, <<"time", "monotonic">> }

----------------------------------------------------------------------------
(* The rules of markers.py                                                 *)

\* _is_open_to_write, the keywords from the i-th on: "T", "F" or "raise".
\* On an astroid.Const, 'w' in value raises TypeError unless value is a str.
RECURSIVE open_keywords(_, _)
open_keywords(expr, i) ==
    IF i > Len(expr.keywords) THEN "F"
    ELSE LET arg == expr.keywords[i]
         IN IF arg.arg # "mode" THEN open_keywords(expr, i + 1)
            ELSE IF is_astroid_Const(expr.tree, arg.value) /\ arg.value.type # "str"
            THEN "raise"
            ELSE IF is_astroid_Const(expr.tree, arg.value) /\ contains_w(arg.value.val)
            THEN "T"
            ELSE IF is_ast_Str(expr.tree, arg.value) /\ contains_w(arg.value.val)
            THEN "T"
            ELSE open_keywords(expr, i + 1)

\* _is_open_to_write
is_open_to_write(expr) ==
    IF \E i \in DOMAIN expr.args :
          \/ is_astroid_Const(expr.tree, expr.args[i])
               /\ expr.args[i].type = "str" /\ expr.args[i].val = <<"w">>
          \/ is_ast_Str(expr.tree, expr.args[i]) /\ contains_w(expr.args[i].val)
    THEN "T"
    ELSE IF expr.keywords = <<>> THEN "F"
    ELSE open_keywords(expr, 1)

\* _is_pathlib_write: "T", "F" or "raise"
is_pathlib_write(expr) ==
    IF ~(expr.kind = "Call" /\ expr.tree = "astroid") THEN "F"
    ELSE IF expr.func.node # "Attribute" THEN "F"
    ELSE LET attrname == expr.func.parts[Len(expr.func.parts)]
             mode == IF attrname = "open" THEN is_open_to_write(expr) ELSE "T"
         IN IF attrname \notin {"write_text", "write_bytes", "open"} THEN "F"
            ELSE IF mode # "T" THEN mode
            ELSE IF \E i \in DOMAIN infer(expr.tree, expr.recv) :
                       /\ expr.recv[i].kind = "Instance"
                       /\ expr.recv[i].pytype = "pathlib"
            THEN "T"
            ELSE "F"

\* _check_print, the keywords from the i-th on: a marker, or "" for None
RECURSIVE check_print_keywords(_, _)
check_print_keywords(expr, i) ==
    IF i > Len(expr.keywords) THEN "stdout"
    ELSE LET kwarg == expr.keywords[i]
             value == get_name(kwarg.value)
         IN IF kwarg.arg # "file" THEN check_print_keywords(expr, i + 1)
            ELSE IF value \in {<<"stdout">>, <<"sys", "stdout">>} THEN "stdout"
            ELSE IF value \in {<<"stderr">>, <<"sys", "stderr">>} THEN "stderr"
            ELSE ""

\* _check_print: the marker of the token, or "" when it returns None
check_print(expr, name) ==
    IF name # <<"print">> THEN "" ELSE check_print_keywords(expr, 1)

\* _is_random
is_random(expr, name) ==
    IF Len(name) >= 2 /\ name[1] = "random" THEN TRUE
    ELSE IF Len(name) > 1 THEN FALSE
    ELSE IF name[1] \in DEFINITELY_RANDOM_FUNCS THEN TRUE
    ELSE IF name[1] \in MAYBE_RANDOM_FUNCS
    THEN \E i \in DOMAIN infer(expr.tree, expr.inferred) :
            /\ expr.inferred[i].kind = "BoundMethod"
            /\ expr.inferred[i].pytype = "random.Random"
    ELSE FALSE

\* _is_syscall
is_syscall(expr, name) ==
    \/ name \in SYSCALLS
    \/ Len(name) >= 2 /\ name[1] = "os" /\ name[2] \in SYSCALLS_PREFIXES

\* _is_time
is_time(expr, name) ==
    \/ name \in TIMES
    \/ <<"time">> \o name \in TIMES

\* What a handler gives before any inference: it raised, or it returned
\* these tokens, or (a call no rule matched) it goes on to _infer_markers.
Raised == [raised |-> TRUE, infer |-> FALSE, tokens |-> <<>>]
Yield(ts) == [raised |-> FALSE, infer |-> FALSE, tokens |-> ts]
GoInfer == [raised |-> FALSE, infer |-> TRUE, tokens |-> <<>>]

\* handle_call, lines 107-153: the rules in their order, first match wins
handle_call(expr) ==
    LET name == get_name(expr.func)
        printed == check_print(expr, name)
        One(marker, value) == Yield(<<Token(marker, value, expr.line, expr.col)>>)
        opened == is_open_to_write(expr)
        pathlib == is_pathlib_write(expr)
    IN IF name = NoName THEN Yield(<<>>)
       ELSE IF printed # "" THEN One(printed, <<"print">>)
       ELSE IF startswith(name, <<"sys", "stdout">>) THEN One("stdout", <<"sys", "stdout", "">>)
       ELSE IF startswith(name, <<"sys", "stderr">>) THEN One("stderr", <<"sys", "stderr", "">>)
       ELSE IF startswith(name, <<"sys", "stdin">>) THEN One("stdin", <<"sys", "stdin", "">>)
       ELSE IF name = <<"input">> THEN One("stdin", <<"input">>)
       ELSE IF name = <<"__import__">> THEN One("import", <<>>)
       ELSE IF is_random(expr, name) THEN One("random", name)
       ELSE IF is_syscall(expr, name) THEN One("syscall", name)
       ELSE IF is_time(expr, name) THEN One("time", name)
       ELSE IF name = <<"open">>
       THEN IF opened = "raise" THEN Raised
            ELSE IF opened = "T" THEN One("write", <<"open">>)
            ELSE One("read", <<"open">>)
       ELSE IF pathlib = "raise" THEN Raised
       ELSE IF pathlib = "T" THEN One("write", <<"Path", "open">>)
       ELSE GoInfer

\* handle_with, the items from the i-th on
RECURSIVE handle_with_items(_, _)
handle_with_items(expr, i) ==
    IF i > Len(expr.items) THEN Yield(<<>>)
    ELSE LET item == expr.items[i]
             pathlib == is_pathlib_write(item)
             opened == is_open_to_write(item)
             One(marker, value) == Yield(<<Token(marker, value, expr.line, expr.col)>>)
         IN IF pathlib = "raise" THEN Raised
            ELSE IF pathlib = "T" THEN One("write", <<"Path", "open">>)
            ELSE IF item.kind # "Call" THEN handle_with_items(expr, i + 1)
            ELSE IF get_name(item.func) = <<"open">>
            THEN IF opened = "raise" THEN Raised
                 ELSE IF opened = "T" THEN One("write", <<"open">>)
                 ELSE One("read", <<"open">>)
            ELSE handle_with_items(expr, i + 1)

\* handle_with
handle_with(expr) == handle_with_items(expr, 1)

\* Extractor.handle: the handler registered for the node's kind, if any
handle(expr) ==
    IF expr.kind = "Call" THEN handle_call(expr)
    ELSE IF expr.kind = "With" THEN handle_with(expr)
    ELSE IF expr.kind \in {"Global", "Nonlocal"}
    THEN Yield(<<Token("global", <<>>, expr.line, expr.col)>>)
    ELSE IF expr.kind \in {"Import", "ImportFrom"}
    THEN Yield(<<Token("import", <<>>, expr.line, expr.col)>>)
    ELSE Yield(<<>>)

----------------------------------------------------------------------------
(* Expressions and function definitions                                    *)

\* A call; inferred is what the oracle gives for its callee, recv what it
\* gives for the receiver of an attribute callee.
CallExpr(tree, func, args, keywords, inferred, recv, line, col) ==
    [kind |-> "Call", tree |-> tree, func |-> func, args |-> args,
     keywords |-> keywords, inferred |-> inferred, recv |-> recv,
     items |-> <<>>, line |-> line, col |-> col]

\* A statement of another kind; a With has the context expressions of its items
Stmt(kind, tree, items, line, col) ==
    [kind |-> kind, tree |-> tree, func |-> OtherNode, args |-> <<>>,
     keywords |-> <<>>, inferred |-> <<>>, recv |-> <<>>,
     items |-> items, line |-> line, col |-> col]

Keyword(arg, value) == [arg |-> arg, value |-> value]

\* common.get_stub: no stub file for the function's module
NoStub == [found |-> FALSE, has |-> {}]

\* common.get_stub and StubFile.get(func, 'has') on the stub it found
Stub(has) == [found |-> TRUE, has |-> has]

\* get_value of a decorator argument: a str or something else
StrValue(v) == [type |-> "str", val |-> v]
IntValue == [type |-> "int", val |-> ""]

\* A function definition: the expressions of its body as traverse gives
\* them, its contracts as get_contracts gives them, its stub
Def(body, decorators, stub) == [body |-> body, decorators |-> decorators, stub |-> stub]

----------------------------------------------------------------------------
(* The extractor, step by step                                             *)

\* One handler call in progress. ci counts the candidates of `inferred`,
\* bi the expressions of the body under analysis.
Frame(expr, dive, stubs) ==
    [expr |-> expr, dive |-> dive, stubs |-> stubs, phase |-> "handle",
     ci |-> 1, bi |-> 1, found |-> FALSE]

\* get_markers(body=value.body, dive=True): the recursion keeps its budget
body_frame_diving(expr) == Frame(expr, TRUE, FALSE)

\* get_markers(body=value.body, dive=False): the handler call made for one
\* expression of a callee's body; stubs is left at its default, None
body_frame(expr) == Frame(expr, FALSE, FALSE)

\* _infer_markers after the stubs loop, stubs_found forgotten
dives_after_stubs_always(frame) == frame.dive

\* _infer_markers, line 168: whether _markers_from_func runs
dives_after_stubs(frame) == ~frame.found /\ frame.dive

\* _infer_markers, line 161: whether _markers_from_stubs runs
consults_stubs(frame) == frame.expr.tree = "astroid" /\ frame.stubs

\* _markers_from_func, lines 251-256: the token moved to the calling expression
reattribute(token, expr) == Token(token.marker, token.value, expr.line, expr.col)

\* A token yielded by the innermost handler call, as the outermost yields it
RECURSIVE yield_up(_, _, _)
yield_up(token, st, k) ==
    IF k < 1 THEN token
    ELSE yield_up(reattribute(token, st[k].expr), st, k - 1)

yielded(ts) == [i \in DOMAIN ts |-> yield_up(ts[i], stack, Len(stack) - 1)]

\* The handler call on top has returned: the loop that made it goes on.
return(st) ==
    IF Len(st) = 1 THEN <<>>
    ELSE SubSeq(st, 1, Len(st) - 2)
            \o << [st[Len(st) - 1] EXCEPT !.bi = @ + 1] >>

Current == stack[Len(stack)]

Candidates(frame) == infer(frame.expr.tree, frame.expr.inferred)

SetCurrent(frame) == stack' = [stack EXCEPT ![Len(stack)] = frame]

Returns ==
    /\ stack' = return(stack)
    /\ status' = IF Len(stack) = 1 THEN "done" ELSE status

Event(ev, fn, n) == [ev |-> ev, fn |-> fn, n |-> n]

\* The orders in which a frozenset may be iterated
Orders(S) == { o \in [1..Cardinality(S) -> S] : \A x \in S : \E i \in DOMAIN o : o[i] = x }

\* Extractor.handle calls the handler of the expression's kind.
Handle ==
    /\ status = "run" /\ stack # <<>> /\ Current.phase = "handle"
    /\ LET r == handle(Current.expr)
       IN IF r.raised
          THEN /\ status' = "raised"
               /\ stack' = <<>>
               /\ UNCHANGED tokens
          ELSE IF r.infer
          THEN /\ SetCurrent([Current EXCEPT !.phase = "stubs"])
               /\ UNCHANGED <<tokens, status>>
          ELSE /\ tokens' = tokens \o yielded(r.tokens)
               /\ Returns
    /\ UNCHANGED <<defs, top, log, stubVars>>

\* _infer_markers, lines 159-164, and _markers_from_stubs: one candidate
InferStubs ==
    /\ status = "run" /\ stack # <<>> /\ Current.phase = "stubs"
    /\ LET frame == Current
           inferred == Candidates(frame)
           value == inferred[frame.ci]
           next == [frame EXCEPT !.ci = @ + 1]
       IN IF ~consults_stubs(frame) \/ frame.ci > Len(inferred)
          THEN /\ IF dives_after_stubs(frame)
                  THEN SetCurrent([frame EXCEPT !.phase = "func", !.ci = 1])
                       /\ UNCHANGED status
                  ELSE Returns
               /\ UNCHANGED <<tokens, log>>
          ELSE IF value.kind # "FunctionDef" \/ ~defs[value.fn].stub.found
          THEN /\ SetCurrent(next)
               /\ UNCHANGED <<tokens, log, status>>
          ELSE \E names \in Orders(defs[value.fn].stub.has) :
               /\ tokens' = tokens \o yielded(
                     [i \in DOMAIN names |->
                        Token(names[i], <<>>, frame.expr.line, frame.expr.col)])
               /\ log' = Append(log, Event("stubs", value.fn, Len(names)))
               /\ SetCurrent([next EXCEPT !.found = @ \/ Len(names) > 0])
               /\ UNCHANGED status
    /\ UNCHANGED <<defs, top, stubVars>>

\* _markers_from_func, lines 245-247: the next candidate
InferFunc ==
    /\ status = "run" /\ stack # <<>> /\ Current.phase = "func"
    /\ LET frame == Current
           inferred == Candidates(frame)
       IN IF frame.ci > Len(inferred)
          THEN Returns /\ UNCHANGED log
          ELSE IF inferred[frame.ci].kind # "FunctionDef"
          THEN /\ SetCurrent([frame EXCEPT !.ci = @ + 1])
               /\ UNCHANGED <<log, status>>
          ELSE /\ SetCurrent([frame EXCEPT !.phase = "body", !.bi = 1])
               /\ log' = Append(log, Event("body", inferred[frame.ci].fn, 0))
               /\ UNCHANGED status
    /\ UNCHANGED <<defs, top, tokens, stubVars>>

\* _markers_from_func, line 250: get_markers over the callee's body hands
\* the next expression to its handler
Body ==
    /\ status = "run" /\ stack # <<>> /\ Current.phase = "body"
    /\ LET frame == Current
           body == defs[Candidates(frame)[frame.ci].fn].body
       IN IF frame.bi > Len(body)
          THEN SetCurrent([frame EXCEPT !.phase = "decorators"])
          ELSE /\ Len(stack) < MaxDepth
               /\ stack' = Append(stack, body_frame(body[frame.bi]))
    /\ UNCHANGED <<defs, top, tokens, log, status, stubVars>>

\* The markers of the str arguments of the @deal.has contracts, in order
RECURSIVE has_markers(_, _)
has_markers(decorators, i) ==
    IF i > Len(decorators) THEN <<>>
    ELSE LET args == decorators[i].args
             strs == SelectSeq(args, LAMBDA a : a.type = "str")
         IN (IF decorators[i].category # "has" THEN <<>>
             ELSE [j \in DOMAIN strs |-> strs[j].val])
            \o has_markers(decorators, i + 1)

\* _markers_from_func, lines 258-268: the markers of @deal.has
Decorators ==
    /\ status = "run" /\ stack # <<>> /\ Current.phase = "decorators"
    /\ LET frame == Current
           fn == Candidates(frame)[frame.ci].fn
           markers == has_markers(defs[fn].decorators, 1)
       IN /\ tokens' = tokens \o yielded(
                [i \in DOMAIN markers |->
                    Token(markers[i], <<>>, frame.expr.line, frame.expr.col)])
          /\ log' = IF defs[fn].decorators = <<>> THEN log
                    ELSE Append(log, Event("decorators", fn, Len(markers)))
          /\ SetCurrent([frame EXCEPT !.phase = "func", !.ci = @ + 1])
    /\ UNCHANGED <<defs, top, status, stubVars>>

MarkersNext ==
    \/ Handle
    \/ InferStubs
    \/ InferFunc
    \/ Body
    \/ Decorators

\* No stub file or manager is in use.
StubsIdle ==
    /\ files = [p \in Paths |-> Absent]
    /\ inits = {}
    /\ modules = <<>>
    /\ heap = <<>>
    /\ last = NoCall

\* The extractor is called on one expression.
Start(expr, dive, stubs) ==
    /\ top = [expr |-> expr, dive |-> dive, stubs |-> stubs]
    /\ stack = <<Frame(expr, dive, stubs)>>
    /\ tokens = <<>>
    /\ log = <<>>
    /\ status = "run"

Trees == {"ast", "astroid"}

----------------------------------------------------------------------------
(* The marker specification: the handlers applied to one expression, over  *)
(* a fixed pair of function definitions                                    *)

\* the expressions handed to the extractor sit here, those of bodies below
TopAt == [line |-> 1, col |-> 0]
BodyAt(i) == [line |-> 10 + i, col |-> 4]

FileArg == ConstNode("str", <<"x">>)

ModeValues ==
    { ConstNode("str", <<"r">>), ConstNode("str", <<"w">>),
      ConstNode("str", <<"w", "b">>), ConstNode("str", <<"r", "w">>),
      ConstNode("bytes", <<"w", "b">>), ConstNode("int", <<>>),
      ConstNode("NoneType", <<>>), NameNode(<<"mode">>) }

OpenArgs == { <<FileArg>> } \cup { <<FileArg, m>> : m \in ModeValues }

OpenKeywords ==
    { <<>>, <<Keyword("encoding", FileArg)>> }
        \cup { <<Keyword("mode", m)>> : m \in ModeValues }

OpenFuncs == { NameNode(<<"open">>), NameNode(<<"p", "open">>),
               NameNode(<<"p", "write_text">>) }

Receivers == { <<>>, <<Instance("pathlib")>>, <<Instance("io")>> }

OpenCalls ==
    { CallExpr(tree, func, args, keywords, <<>>, recv, TopAt.line, TopAt.col) :
        tree \in Trees, func \in OpenFuncs, args \in OpenArgs,
        keywords \in OpenKeywords, recv \in Receivers }

\* with <item>: and with <other>, <item>:
Withs ==
    UNION { { Stmt("With", item.tree, <<item>>, TopAt.line, TopAt.col),
              Stmt("With", item.tree,
                   <<Stmt("Other", item.tree, <<>>, TopAt.line, TopAt.col), item>>,
                   TopAt.line, TopAt.col) } :
            item \in { c \in OpenCalls : c.recv # <<Instance("io")>> } }

FileValues ==
    { NameNode(<<"sys", "stdout">>), NameNode(<<"stdout">>),
      NameNode(<<"sys", "stderr">>), NameNode(<<"stderr">>),
      NameNode(<<"stream">>), NameNode(<<"self", "stream">>),
      ConstNode("NoneType", <<>>), OtherNode }

PrintKeywords ==
    { <<>>, <<Keyword("sep", FileArg)>> }
        \cup { <<Keyword("file", v)>> : v \in FileValues }
        \cup { <<Keyword("sep", FileArg), Keyword("file", v)>> : v \in FileValues }

Inferences ==
    { <<>>, <<BoundMethod("random.Random")>>, <<BoundMethod("io.TextIOWrapper")>>,
      <<FunctionDef("f")>>, <<FunctionDef("g")>>, <<ClassDef, FunctionDef("f")>> }

PrintCalls ==
    { CallExpr(tree, NameNode(<<"print">>), <<FileArg>>, keywords, inferred, <<>>,
               TopAt.line, TopAt.col) :
        tree \in Trees, keywords \in PrintKeywords, inferred \in Inferences }

CalleeNames ==
    { <<"random", "randint">>, <<"random", "choice">>, <<"randint">>, <<"shuffle">>,
      <<"choice">>, <<"seed">>, <<"rng", "choice">>, <<"rng", "shuffle">>,
      <<"rng", "helper">>, <<"helper">>,
      <<"sys", "stdout", "write">>, <<"sys", "stderr", "write">>,
      <<"sys", "stdin", "read">>, <<"input">>, <<"__import__">>,
      <<"os", "system">>, <<"os", "execvp">>, <<"subprocess", "run">>,
      <<"time", "time">>, <<"time">>, <<"monotonic">>, <<"datetime", "now">> }

NamedCalls ==
    { CallExpr(tree, func, <<>>, <<>>, inferred, <<>>, TopAt.line, TopAt.col) :
        tree \in Trees,
        func \in { NameNode(n) : n \in CalleeNames } \cup { OtherNode },
        inferred \in Inferences }

Statements ==
    { Stmt(kind, tree, <<>>, TopAt.line, TopAt.col) :
        kind \in {"Global", "Nonlocal", "Import", "ImportFrom", "Other"},
        tree \in Trees }

\* f writes to stdout, calls g and declares @deal.has('network', 1); it has
\* no stub. g opens a file with mode=None and has a stub.
LibraryDefs ==
    [fn \in {"f", "g"} |->
        IF fn = "f"
        THEN Def(<< CallExpr("astroid", NameNode(<<"sys", "stdout", "write">>), <<FileArg>>,
                             <<>>, <<>>, <<>>, BodyAt(1).line, BodyAt(1).col),
                    CallExpr("astroid", NameNode(<<"helper">>), <<>>, <<>>,
                             <<FunctionDef("g")>>, <<>>, BodyAt(2).line, BodyAt(2).col) >>,
                 << [category |-> "has", args |-> <<StrValue("network"), IntValue>>] >>,
                 NoStub)
        ELSE Def(<< CallExpr("astroid", NameNode(<<"open">>), <<FileArg>>,
                             <<Keyword("mode", ConstNode("NoneType", <<>>))>>,
                             <<>>, <<>>, BodyAt(1).line, BodyAt(1).col) >>,
                 <<>>,
                 Stub({"io"}))]

MarkersInit ==
    /\ defs = LibraryDefs
    /\ \E expr \in OpenCalls \cup Withs \cup PrintCalls \cup NamedCalls \cup Statements,
          dive \in BOOLEAN, stubs \in BOOLEAN :
          Start(expr, dive, stubs)
    /\ StubsIdle

SpecMarkers == MarkersInit /\ [][MarkersNext]_vars

----------------------------------------------------------------------------
(* The dive specification: one call whose callee the oracle resolves,      *)
(* over every small call graph of two functions                            *)

BodyChoices == {"print", "f", "g"}

\* The i-th expression of a body: a print, or a call the oracle resolves to
\* the function f or g
BodyExpr(choice, i) ==
    IF choice = "print"
    THEN CallExpr("astroid", NameNode(<<"print">>), <<FileArg>>, <<>>, <<>>, <<>>,
                  BodyAt(i).line, BodyAt(i).col)
    ELSE CallExpr("astroid", NameNode(<<"helper">>), <<>>, <<>>,
                  <<FunctionDef(choice)>>, <<>>, BodyAt(i).line, BodyAt(i).col)

Bodies ==
    UNION { { [i \in 1..n |-> BodyExpr(choices[i], i)] :
                choices \in [1..n -> BodyChoices] } : n \in 0..MaxBody }

\* f declares @deal.raises(ValueError) and @deal.has('net', 1)
Decorated ==
    << [category |-> "raises", args |-> <<StrValue("ValueError")>>],
       [category |-> "has", args |-> <<StrValue("net"), IntValue>>] >>

CallGraphs ==
    { [fn \in {"f", "g"} |-> IF fn = "f" THEN f ELSE g] :
        f \in { Def(body, Decorated, stub) :
                  body \in Bodies, stub \in {NoStub, Stub({}), Stub({"io"})} },
        g \in { Def(body, <<>>, stub) :
                  body \in Bodies, stub \in {NoStub, Stub({"io", "net"})} } }

ResolvedCalls ==
    { CallExpr("astroid", NameNode(<<"helper">>), <<>>, <<>>, inferred, <<>>,
               TopAt.line, TopAt.col) :
        inferred \in { <<FunctionDef("f")>>, <<FunctionDef("g")>>,
                       <<FunctionDef("f"), FunctionDef("g")>>,
                       <<ClassDef, FunctionDef("g"), FunctionDef("f")>> } }
    \cup { CallExpr("ast", NameNode(<<"helper">>), <<>>, <<>>, <<FunctionDef("f")>>,
                    <<>>, TopAt.line, TopAt.col) }

DiveInit ==
    /\ defs \in CallGraphs
    /\ \E expr \in ResolvedCalls, dive \in BOOLEAN, stubs \in BOOLEAN :
          Start(expr, dive, stubs)
    /\ StubsIdle

SpecDive == DiveInit /\ [][MarkersNext]_vars /\ WF_vars(MarkersNext)

----------------------------------------------------------------------------
(* Claims about the stub files                                             *)

\* C1: after add calls and dump(), dump has completed without error, the
\* backing file holds the whole in-memory content, and a fresh StubFile loaded
\* from the same path gives, for every function, exactly the "raises" values
\* that were added.
C1_DumpRoundTrip ==
    last.op = "dump" =>
        LET stub == heap[last.ret]
            fresh == load(StubFile(stub.path), files)
        IN /\ ~last.raised
           /\ files[stub.path] = Json(stub.content)
           /\ ~fresh.raised
           /\ \A func \in Funcs :
                 StubFile_get(fresh.stub, func, "raises")
                     = StubFile_get(stub, func, "raises")

\* C2: get(module_name) returns the module's StubFile whenever the module is
\* cached or the built-in file <root>/<module_name>.json exists, and returns
\* nothing, without raising, only when neither is the case.
C2_GetResolves ==
    last.op = "get" =>
        LET known == \/ last.module \in DOMAIN modules
                     \/ files[Path(root, last.module, "json")].kind # "absent"
        IN /\ ~last.raised
           /\ known => last.ret # None /\ last.ret = modules[last.module]
           /\ last.ret = None => ~known

\* C3: a module name, once it maps to a StubFile, maps to that same StubFile
\* for ever; read, create and get that resolve to it return that instance and
\* leave the content of every StubFile as it was.
C3_OneInstancePerModule ==
    [][ /\ \A m \in DOMAIN modules :
              /\ m \in DOMAIN modules'
              /\ modules'[m] = modules[m]
              /\ (last'.op \in {"read", "create", "get"} /\ last'.module = m
                    /\ ~last'.raised) => last'.ret = modules[m]
        /\ last'.op \in {"read", "create", "get"} =>
              \A i \in DOMAIN heap : heap'[i] = heap[i]
        /\ \A m1, m2 \in DOMAIN modules' :
              modules'[m1] = modules'[m2] => m1 = m2
      ]_vars

\* C3 witness: two modules are cached, and a read has returned an instance
\* whose content is no longer what loading its file gives.
C3_Witness ==
    /\ last.op = "read"
    /\ ~last.raised
    /\ Cardinality(DOMAIN modules) = 2
    /\ LET stub == heap[last.ret]
       IN /\ files[stub.path].kind = "json"
          /\ stub.content # files[stub.path].data

----------------------------------------------------------------------------
(* Claims about the marker handlers                                        *)

Markers(ts) == { ts[i].marker : i \in DOMAIN ts }

\* a str literal, in either tree
IsStrLiteral(node) == node.node = "Const" /\ node.type = "str"

\* some positional argument, or some mode= keyword, is a str literal with a w
WriteMode(expr) ==
    \/ \E i \in DOMAIN expr.args :
          IsStrLiteral(expr.args[i]) /\ contains_w(expr.args[i].val)
    \/ \E i \in DOMAIN expr.keywords :
          /\ expr.keywords[i].arg = "mode"
          /\ IsStrLiteral(expr.keywords[i].value)
          /\ contains_w(expr.keywords[i].value.val)

CalleeIs(expr, name) == expr.kind = "Call" /\ get_name(expr.func) = name

\* C4: handle_call and handle_with never raise, whatever the mode argument
\* of an open is; when no mode is a str literal with a w, an open (or a path
\* object's open) gives no write token.
C4_HandlersNeverRaise ==
    /\ status # "raised"
    /\ \A i \in DOMAIN tokens :
          ( /\ status = "done"
            /\ top.expr.kind = "Call"
            /\ get_name(top.expr.func) # NoName
            /\ top.expr.func.parts[Len(top.expr.func.parts)] = "open"
            /\ ~WriteMode(top.expr) ) => tokens[i].marker # "write"

\* C5: a call to bare open, from either tree, yields exactly one token:
\* write if a positional argument or a mode= keyword is a str literal with a
\* w in it, read otherwise.
C5_OpenMarker ==
    (status = "done" /\ CalleeIs(top.expr, <<"open">>)) =>
        /\ Len(tokens) = 1
        /\ tokens[1].marker = IF WriteMode(top.expr) THEN "write" ELSE "read"

\* what the file= keyword of a print decides: the markers of its tokens
PrintMarkers(expr) ==
    LET files_kw == SelectSeq(expr.keywords, LAMBDA k : k.arg = "file")
    IN IF files_kw = <<>> THEN <<"stdout">>
       ELSE IF get_name(files_kw[1].value) \in {<<"stdout">>, <<"sys", "stdout">>}
       THEN <<"stdout">>
       ELSE IF get_name(files_kw[1].value) \in {<<"stderr">>, <<"sys", "stderr">>}
       THEN <<"stderr">>
       ELSE <<>>

\* C6: for a call named print the file= keyword decides the whole output:
\* one stdout token, one stderr token, or, for any other file= value, no
\* token at all, whatever the oracle and the stubs say.
C6_PrintMarker ==
    (status = "done" /\ CalleeIs(top.expr, <<"print">>)) =>
        [i \in DOMAIN tokens |-> tokens[i].marker] = PrintMarkers(top.expr)

\* a call that print, the stream rules, input and __import__ leave alone
PastEarlierRules(expr) ==
    LET name == get_name(expr.func)
    IN /\ expr.kind = "Call"
       /\ name # NoName
       /\ name \notin {<<"print">>, <<"input">>, <<"__import__">>}
       /\ ~startswith(name, <<"sys", "stdout">>)
       /\ ~startswith(name, <<"sys", "stderr">>)
       /\ ~startswith(name, <<"sys", "stdin">>)

\* the callee is random by its name, or by its name and what it is bound to
RandomCallee(expr) ==
    LET name == get_name(expr.func)
    IN \/ Len(name) >= 2 /\ name[1] = "random"
       \/ Len(name) = 1 /\ name[1] \in DEFINITELY_RANDOM_FUNCS
       \/ /\ name[Len(name)] \in MAYBE_RANDOM_FUNCS
          /\ \E i \in DOMAIN infer(expr.tree, expr.inferred) :
                expr.inferred[i] = BoundMethod("random.Random")

\* C7: past the earlier rules, a call yields a random token when its dotted
\* name starts with random., when its bare name is definitely random, or when
\* its name is exported by random and the oracle infers a method bound to a
\* random.Random, a method called on a receiver included; otherwise this
\* rule gives no random token.
C7_RandomMarker ==
    (status = "done" /\ PastEarlierRules(top.expr)) =>
        IF RandomCallee(top.expr)
        THEN Len(tokens) = 1 /\ tokens[1].marker = "random"
        ELSE "random" \notin Markers(tokens)

----------------------------------------------------------------------------
(* Claims about the dive                                                   *)

FunctionDefs(expr) ==
    { expr.inferred[i].fn :
        i \in { j \in DOMAIN infer(expr.tree, expr.inferred) :
                   expr.inferred[j].kind = "FunctionDef" } }

Events(ev) == { i \in DOMAIN log : log[i].ev = ev }

\* Body analysis is never nested: below the outermost handler call there is
\* at most one more, made for an expression of a directly inferred callee's
\* body, with dive disabled; a call with dive disabled analyses no body.
DiveDepthOne ==
    /\ Len(stack) <= 2
    /\ \A i \in DOMAIN stack :
          /\ i > 1 => ~stack[i].dive
          /\ ~stack[i].dive => stack[i].phase \in {"handle", "stubs"}
          /\ i < Len(stack) => stack[i].phase = "body"
    /\ \A i \in Events("body") : top.dive /\ log[i].fn \in FunctionDefs(top.expr)

\* C8: the dive is one level deep and the analysis always finishes, for
\* every call graph, self-recursive and mutually recursive ones included.
C8_DiveBounded == [] DiveDepthOne /\ <>(status \in {"done", "raised"})

\* C8 witness: while the body of f is analysed, a call that the oracle
\* resolves to f itself has been handled, and no second body analysis began.
C8_Witness ==
    /\ Len(stack) = 2
    /\ stack[2].phase = "stubs"
    /\ stack[2].expr.inferred
          = << FunctionDef(Candidates(stack[1])[stack[1].ci].fn) >>

\* the markers the handlers give for the body of fn, with dive disabled
BodyMarkers(fn) ==
    UNION { Markers(handle(defs[fn].body[i]).tokens) : i \in DOMAIN defs[fn].body }

DecoratorMarkers(fn) ==
    LET ms == has_markers(defs[fn].decorators, 1) IN { ms[i] : i \in DOMAIN ms }

\* what one candidate contributes on its own
Contribution(fn) ==
    IF top.stubs /\ top.expr.tree = "astroid" /\ defs[fn].stub.has # {}
    THEN defs[fn].stub.has
    ELSE IF top.dive THEN BodyMarkers(fn) \cup DecoratorMarkers(fn)
    ELSE {}

C10_StubsFirst ==
    LET stub_tokens == \E i \in Events("stubs") : log[i].n > 0
        analysed == Events("body") \cup Events("decorators")
    IN /\ \A i \in analysed, j \in Events("stubs") : j < i
       /\ stub_tokens => analysed = {}
       /\ analysed # {} => top.dive
       /\ \A i \in DOMAIN tokens :
             tokens[i].line = top.expr.line /\ tokens[i].col = top.expr.col

\* C10 witness: with dive enabled, a stub gave a token for a function whose
\* body would have given tokens too, and the analysis is done.
C10_Witness ==
    /\ status = "done"
    /\ top.dive
    /\ tokens # <<>>
    /\ \E i \in Events("stubs") : log[i].n > 0 /\ BodyMarkers(log[i].fn) # {}

====
